---- MODULE Spec2Model ----
(***************************************************************************)
(* Account REST service (service/routes.py): the five CRUD handlers over   *)
(* the accounts table, one action per HTTP request.                        *)
(*                                                                         *)
(* service/models.py (Account, its (de)serialization and persistence) and  *)
(* service/common/error_handlers.py are not part of the sources at hand;   *)
(* the operators below that stand for them follow sections 3, 4.1 and 4.3  *)
(* of the specification and what tests/test_routes.py observes.            *)
(***************************************************************************)
EXTENDS Integers, Sequences, FiniteSets, TLC

\* Bound of the model: how many rows the id sequence of the table hands out.
MaxAccounts == 2
\* Bound of the model: how many requests are handled at the same time.
NumWorkers == 2

\* Python None / JSON null, as a field value.
None == "<None>"
\* The id of an entity that has not been persisted (Python None).  URL path
\* ids are matched by <int:...> and are never negative.
NoId == -1
\* date.today() at the time of the requests.
Today == "2026-11-03"

JSON == "application/json"
\* Content-Type headers a client may send; None is "no header".
ContentTypes == {JSON, "text/html", "application/json; charset=utf-8", None}
\* Those tried on PUT, whose handler does not look at the header itself.
UpdateContentTypes == {JSON, "text/html"}
\* Those tried on GET and DELETE, whose handlers read neither header nor body.
BodylessContentTypes == {None, "text/html"}

RequiredKeys == {"name", "email", "address"}

\* HTTP status codes (service/common/status.py).
HTTP_200_OK == 200
HTTP_201_CREATED == 201
HTTP_204_NO_CONTENT == 204
HTTP_400_BAD_REQUEST == 400
HTTP_404_NOT_FOUND == 404
HTTP_405_METHOD_NOT_ALLOWED == 405
HTTP_415_UNSUPPORTED_MEDIA_TYPE == 415

(***************************************************************************)
(* Request bodies.  A JSON object is a record holding exactly the keys     *)
(* that are present; a JSON array is a body that is not a mapping.         *)
(***************************************************************************)
ValidDicts ==
    { [name |-> "Ann", email |-> "a@x.com", address |-> "1 Main St"],
      [name |-> "Ann", email |-> "b@x.com", address |-> "1 Main St",
       phone_number |-> "555", id |-> 1, nickname |-> "annie"],
      [name |-> "Bob", email |-> "b@x.com", address |-> "2 Side Rd",
       phone_number |-> "777", date_joined |-> "2020-01-01", id |-> 7] }

InvalidDicts ==
    { [email |-> "a@x.com", address |-> "1 Main St"],
      [name |-> "not enough data"],
      [name |-> "Ann", email |-> "a@x.com", phone_number |-> "555", id |-> 1] }

Payloads ==
    { [type |-> "dict", items |-> d] : d \in ValidDicts \cup InvalidDicts }
    \cup { [type |-> "list"] }

NoPayload == [type |-> "none"]

\* The ids a URL path may carry: 0 (never assigned) and every id the
\* sequence can hand out.
PathIds == 0 .. MaxAccounts

VARIABLES
    accounts,     \* the accounts table: id -> row
    nextId,       \* the table's id sequence
    req,          \* the request just handled
    resp,         \* the response to it
    before,       \* history: the table as the request just handled found it
    posted,       \* history: id -> the body of the Create that made it
    touched,      \* history: created ids a PUT or DELETE has been addressed to
    deletedIds,   \* history: ids removed by a successful Delete
    nCreated,     \* history: number of 201 responses
    nDeleted,     \* history: number of 204 responses
    issued,       \* history: the ids of the 201 responses, in order
    threads,      \* worker -> the request it is handling, and how far it got
    absentDelete, \* history: delete() ran on a row that was already gone
    ok204         \* history: id -> number of 204 responses to its Deletes

vars == <<accounts, nextId, req, resp, before, posted, touched, deletedIds, nCreated, nDeleted,
          issued, threads, absentDelete, ok204>>

(***************************************************************************)
(* Account entity and persistence interface (service/models.py).           *)
(***************************************************************************)
\* Account(): a transient entity, nothing set.
Account ==
    [id |-> NoId, name |-> None, email |-> None, address |-> None,
     phone_number |-> None, date_joined |-> None]

\* dict.get(key): the value, or None when the key is absent.
Get(d, key) == IF key \in DOMAIN d THEN d[key] ELSE None

\* deserialize(data): name, email, address from the required keys,
\* phone_number and date_joined from the optional ones (date_joined defaults
\* to today); id is not read from the body, unknown keys are ignored.  A body
\* that is not a mapping, or lacks a required key, is a validation error.
deserialize_ok(data) ==
    /\ data.type = "dict"
    /\ RequiredKeys \subseteq DOMAIN data.items

deserialize(account, data) ==
    [account EXCEPT
        !.name = data.items.name,
        !.email = data.items.email,
        !.address = data.items.address,
        !.phone_number = Get(data.items, "phone_number"),
        !.date_joined = IF "date_joined" \in DOMAIN data.items
                        THEN data.items.date_joined ELSE Today]

\* serialize(): the flat six-field representation.
serialize(account) ==
    [id |-> account.id, name |-> account.name, email |-> account.email,
     address |-> account.address, phone_number |-> account.phone_number,
     date_joined |-> account.date_joined]

\* Account.find(id): the row, or nothing.
find(table, id) == IF id \in DOMAIN table THEN <<table[id]>> ELSE <<>>

\* create(): adds a row under the next id of the sequence.
create(table, seq, account) ==
    [accounts |-> [i \in DOMAIN table \cup {seq} |->
                     IF i = seq THEN [account EXCEPT !.id = seq] ELSE table[i]],
     nextId |-> seq + 1,
     account |-> [account EXCEPT !.id = seq]]

\* update(): persists the entity's fields to the row its id identifies; an
\* entity that is no row of the table (a transient one) has nothing to
\* persist.
update(table, account) ==
    IF account.id \in DOMAIN table
    THEN [table EXCEPT ![account.id] = account]
    ELSE table

\* delete(): removes the entity's row; no-op when it is absent.
delete(table, account) ==
    [i \in DOMAIN table \ {account.id} |-> table[i]]

\* Account.all(): every row, in insertion (id) order.
RECURSIVE all_from(_, _)
all_from(table, ids) ==
    IF ids = {} THEN <<>>
    ELSE LET m == CHOOSE i \in ids : \A j \in ids : i <= j
         IN <<table[m]>> \o all_from(table, ids \ {m})

all(table) == all_from(table, DOMAIN table)

(***************************************************************************)
(* Error/status mapper: abort(status, message) and the JSON error body.    *)
(***************************************************************************)
abort(status, error, message) ==
    [status |-> status, kind |-> "error",
     body |-> [status |-> status, error |-> error, message |-> message]]

not_found(id) ==
    abort(HTTP_404_NOT_FOUND, "Not Found",
          [text |-> "Account id [] could not be found", id |-> id])

bad_request ==
    abort(HTTP_400_BAD_REQUEST, "Bad Request", [text |-> "Invalid account"])

(***************************************************************************)
(* Resource handlers (service/routes.py).  Each yields the response and    *)
(* the table and id sequence it leaves behind.                             *)
(***************************************************************************)
Outcome(r, table, seq) == [resp |-> r, accounts |-> table, nextId |-> seq]

\* Variant: a request without the header passes the check.
check_content_type_absent_ok(content_type, media_type) ==
    content_type = None \/ content_type = media_type

\* check_content_type(media_type): passes only on an exact match.
check_content_type(content_type, media_type) ==
    content_type # None /\ content_type = media_type

unsupported_media_type(media_type) ==
    abort(HTTP_415_UNSUPPORTED_MEDIA_TYPE, "Unsupported media type",
          [text |-> "Content-Type must be", media_type |-> media_type])

\* Variant: the body is never deserialized into the entity that is created.
create_accounts_skips_deserialize(table, seq, content_type, data) ==
    IF ~check_content_type(content_type, JSON)
    THEN Outcome(unsupported_media_type(JSON), table, seq)
    ELSE IF ~deserialize_ok(data)
    THEN Outcome(bad_request, table, seq)
    ELSE LET c == create(table, seq, Account)
         IN Outcome([status |-> HTTP_201_CREATED, kind |-> "account",
                     body |-> serialize(c.account), location |-> "/"],
                    c.accounts, c.nextId)

\* Variant: create() runs before the body is deserialized.
create_accounts_creates_first(table, seq, content_type, data) ==
    IF ~check_content_type(content_type, JSON)
    THEN Outcome(unsupported_media_type(JSON), table, seq)
    ELSE LET blank == create(table, seq, Account)
         IN IF ~deserialize_ok(data)
            THEN Outcome(bad_request, blank.accounts, blank.nextId)
            ELSE LET c == create(table, seq, deserialize(Account, data))
                 IN Outcome([status |-> HTTP_201_CREATED, kind |-> "account",
                             body |-> serialize(c.account), location |-> "/"],
                            c.accounts, c.nextId)

\* Variant: the new row's id is the number of rows plus one, not the next
\* value of the sequence.
create_accounts_counts_rows(table, seq, content_type, data) ==
    IF ~check_content_type(content_type, JSON)
    THEN Outcome(unsupported_media_type(JSON), table, seq)
    ELSE IF ~deserialize_ok(data)
    THEN Outcome(bad_request, table, seq)
    ELSE LET c == create(table, Cardinality(DOMAIN table) + 1,
                         deserialize(Account, data))
         IN Outcome([status |-> HTTP_201_CREATED, kind |-> "account",
                     body |-> serialize(c.account), location |-> "/"],
                    c.accounts, seq + 1)

\* Variant: the response is made without the Location header.
create_accounts_no_location(table, seq, content_type, data) ==
    IF ~check_content_type(content_type, JSON)
    THEN Outcome(unsupported_media_type(JSON), table, seq)
    ELSE IF ~deserialize_ok(data)
    THEN Outcome(bad_request, table, seq)
    ELSE LET c == create(table, seq, deserialize(Account, data))
         IN Outcome([status |-> HTTP_201_CREATED, kind |-> "account",
                     body |-> serialize(c.account)],
                    c.accounts, c.nextId)

\* POST /accounts
create_accounts(table, seq, content_type, data) ==
    IF ~check_content_type(content_type, JSON)
    THEN Outcome(unsupported_media_type(JSON), table, seq)
    ELSE IF ~deserialize_ok(data)
    THEN Outcome(bad_request, table, seq)
    ELSE LET c == create(table, seq, deserialize(Account, data))
         IN Outcome([status |-> HTTP_201_CREATED, kind |-> "account",
                     body |-> serialize(c.account), location |-> "/"],
                    c.accounts, c.nextId)

\* Variant: an absent id is answered with an empty entity, not with 404.
read_an_account_no_check(table, seq, acc_id) ==
    LET result == find(table, acc_id)
    IN Outcome([status |-> HTTP_200_OK, kind |-> "account",
                body |-> serialize(IF result = <<>> THEN Account ELSE result[1])],
               table, seq)

\* GET /accounts/<int:acc_id>
read_an_account(table, seq, acc_id) ==
    LET result == find(table, acc_id)
    IN IF result = <<>>
       THEN Outcome(not_found(acc_id), table, seq)
       ELSE Outcome([status |-> HTTP_200_OK, kind |-> "account",
                     body |-> serialize(result[1])], table, seq)

\* Variant: an empty table is reported as not found.
list_all_accounts_empty_404(table, seq) ==
    LET result == all(table)
    IN IF result = <<>>
       THEN Outcome(abort(HTTP_404_NOT_FOUND, "Not Found",
                          [text |-> "No accounts found"]), table, seq)
       ELSE Outcome([status |-> HTTP_200_OK, kind |-> "list",
                     items |-> [i \in 1 .. Len(result) |-> serialize(result[i])]],
                    table, seq)

\* GET /accounts
list_all_accounts(table, seq) ==
    LET result == all(table)
    IN IF result = <<>>
       THEN Outcome([status |-> HTTP_200_OK, kind |-> "list", items |-> <<>>],
                    table, seq)
       ELSE Outcome([status |-> HTTP_200_OK, kind |-> "list",
                     items |-> [i \in 1 .. Len(result) |-> serialize(result[i])]],
                    table, seq)

\* request.get_json() parses the body only when the Content-Type's media
\* type is JSON (parameters such as charset are not part of the media type).
is_json(content_type) ==
    content_type \in {JSON, "application/json; charset=utf-8"}

\* What request.get_json() answers when the media type is not JSON depends
\* on the framework release in use: 400 or 415.
JsonFailures == {HTTP_400_BAD_REQUEST, HTTP_415_UNSUPPORTED_MEDIA_TYPE}

json_failure(status) ==
    abort(status, "Not JSON", [text |-> "Did not attempt to load JSON data"])

\* Variant: no existence check before the body is handled.
update_account_no_check(table, seq, account_id, content_type, data, on_json_failure) ==
    IF ~is_json(content_type)
    THEN Outcome(json_failure(on_json_failure), table, seq)
    ELSE IF ~deserialize_ok(data)
    THEN Outcome(bad_request, table, seq)
    ELSE LET account == deserialize(Account, data)
         IN Outcome([status |-> HTTP_200_OK, kind |-> "account",
                     body |-> serialize(account)],
                    update(table, account), seq)

\* Variant: the row that was found is serialized, not the entity made from
\* the body.
update_account_echoes_row(table, seq, account_id, content_type, data, on_json_failure) ==
    LET result == find(table, account_id)
    IN IF result = <<>>
       THEN Outcome(not_found(account_id), table, seq)
       ELSE IF ~is_json(content_type)
       THEN Outcome(json_failure(on_json_failure), table, seq)
       ELSE IF ~deserialize_ok(data)
       THEN Outcome(bad_request, table, seq)
       ELSE LET account == deserialize(Account, data)
            IN Outcome([status |-> HTTP_200_OK, kind |-> "account",
                        body |-> serialize(result[1])],
                       update(table, account), seq)

\* Variant: the entity made from the body is given the path id before
\* update(), so that every deserialized field overwrites the row.
update_account_persists(table, seq, account_id, content_type, data, on_json_failure) ==
    LET result == find(table, account_id)
    IN IF result = <<>>
       THEN Outcome(not_found(account_id), table, seq)
       ELSE IF ~is_json(content_type)
       THEN Outcome(json_failure(on_json_failure), table, seq)
       ELSE IF ~deserialize_ok(data)
       THEN Outcome(bad_request, table, seq)
       ELSE LET account == [deserialize(Account, data) EXCEPT !.id = account_id]
            IN Outcome([status |-> HTTP_200_OK, kind |-> "account",
                        body |-> serialize(account)],
                       update(table, account), seq)

\* Variant: the body is read and deserialized before the existence check.
update_account_deserializes_first(table, seq, account_id, content_type, data, on_json_failure) ==
    IF ~is_json(content_type)
    THEN Outcome(json_failure(on_json_failure), table, seq)
    ELSE IF ~deserialize_ok(data)
    THEN Outcome(bad_request, table, seq)
    ELSE LET result == find(table, account_id)
             account == deserialize(Account, data)
         IN IF result = <<>>
            THEN Outcome(not_found(account_id), table, seq)
            ELSE Outcome([status |-> HTTP_200_OK, kind |-> "account",
                          body |-> serialize(account)],
                         update(table, account), seq)

\* Variant: the body is parsed whatever the Content-Type, as with
\* request.get_json(force=True).
update_account_force_json(table, seq, account_id, content_type, data, on_json_failure) ==
    LET result == find(table, account_id)
    IN IF result = <<>>
       THEN Outcome(not_found(account_id), table, seq)
       ELSE IF ~deserialize_ok(data)
       THEN Outcome(bad_request, table, seq)
       ELSE LET account == deserialize(Account, data)
            IN Outcome([status |-> HTTP_200_OK, kind |-> "account",
                        body |-> serialize(account)],
                       update(table, account), seq)

\* PUT /accounts/<int:account_id>
update_account(table, seq, account_id, content_type, data, on_json_failure) ==
    LET result == find(table, account_id)
    IN IF result = <<>>
       THEN Outcome(not_found(account_id), table, seq)
       ELSE IF ~is_json(content_type)
       THEN Outcome(json_failure(on_json_failure), table, seq)
       ELSE IF ~deserialize_ok(data)
       THEN Outcome(bad_request, table, seq)
       ELSE LET account == deserialize(Account, data)
            IN Outcome([status |-> HTTP_200_OK, kind |-> "account",
                        body |-> serialize(account)],
                       update(table, account), seq)

\* Variant: 204 is answered without result.delete().
delete_account_keeps_row(table, seq, account_id) ==
    LET result == find(table, account_id)
    IN IF result = <<>>
       THEN Outcome(not_found(account_id), table, seq)
       ELSE Outcome([status |-> HTTP_204_NO_CONTENT, kind |-> "text", text |-> ""],
                    table, seq)

\* Variant: no existence check, delete() being no-op-safe.
delete_account_no_check(table, seq, account_id) ==
    Outcome([status |-> HTTP_204_NO_CONTENT, kind |-> "text", text |-> ""],
            delete(table, [Account EXCEPT !.id = account_id]), seq)

\* Variant: an absent id is answered 404 with an empty body.
delete_account_empty_404(table, seq, account_id) ==
    LET result == find(table, account_id)
    IN IF result = <<>>
       THEN Outcome([status |-> HTTP_404_NOT_FOUND, kind |-> "text", text |-> ""],
                    table, seq)
       ELSE Outcome([status |-> HTTP_204_NO_CONTENT, kind |-> "text", text |-> ""],
                    delete(table, result[1]), seq)

\* DELETE /accounts/<int:account_id>
delete_account(table, seq, account_id) ==
    LET result == find(table, account_id)
    IN IF result = <<>>
       THEN Outcome(not_found(account_id), table, seq)
       ELSE Outcome([status |-> HTTP_204_NO_CONTENT, kind |-> "text", text |-> ""],
                    delete(table, result[1]), seq)

(***************************************************************************)
(* Routing: the @app.route decorators and the dispatch the framework does  *)
(* on them.                                                                *)
(***************************************************************************)
COLLECTION == "/accounts"
ITEM == "/accounts/<int>"

\* Variant: DELETE is registered on the collection path too.
Routes_delete_on_collection ==
    { [rule |-> "/health", method |-> "GET", endpoint |-> "health"],
      [rule |-> "/", method |-> "GET", endpoint |-> "index"],
      [rule |-> COLLECTION, method |-> "POST", endpoint |-> "create_accounts"],
      [rule |-> COLLECTION, method |-> "GET", endpoint |-> "list_all_accounts"],
      [rule |-> COLLECTION, method |-> "DELETE", endpoint |-> "delete_account"],
      [rule |-> ITEM, method |-> "GET", endpoint |-> "read_an_account"],
      [rule |-> ITEM, method |-> "PUT", endpoint |-> "update_account"],
      [rule |-> ITEM, method |-> "DELETE", endpoint |-> "delete_account"] }

Routes ==
    { [rule |-> "/health", method |-> "GET", endpoint |-> "health"],
      [rule |-> "/", method |-> "GET", endpoint |-> "index"],
      [rule |-> COLLECTION, method |-> "POST", endpoint |-> "create_accounts"],
      [rule |-> COLLECTION, method |-> "GET", endpoint |-> "list_all_accounts"],
      [rule |-> ITEM, method |-> "GET", endpoint |-> "read_an_account"],
      [rule |-> ITEM, method |-> "PUT", endpoint |-> "update_account"],
      [rule |-> ITEM, method |-> "DELETE", endpoint |-> "delete_account"] }

method_not_allowed ==
    abort(HTTP_405_METHOD_NOT_ALLOWED, "Method not Allowed",
          [text |-> "The method is not allowed for the requested URL"])

\* A request on a registered path goes to the endpoint registered for its
\* method, and is answered 405 when there is none.
dispatch(table, seq, method, rule, id, content_type, data, on_json_failure) ==
    LET matches == { r \in Routes : r.rule = rule /\ r.method = method }
    IN IF matches = {}
       THEN Outcome(method_not_allowed, table, seq)
       ELSE LET endpoint == (CHOOSE r \in matches : TRUE).endpoint
            IN CASE endpoint = "create_accounts" ->
                      create_accounts(table, seq, content_type, data)
                 [] endpoint = "list_all_accounts" ->
                      list_all_accounts(table, seq)
                 [] endpoint = "read_an_account" ->
                      read_an_account(table, seq, id)
                 [] endpoint = "update_account" ->
                      update_account(table, seq, id, content_type, data,
                                     on_json_failure)
                 [] endpoint = "delete_account" ->
                      delete_account(table, seq, id)
                 [] OTHER ->
                      Outcome([status |-> HTTP_200_OK, kind |-> "info"], table, seq)

\* Requests on the account paths with a method none of the five handlers
\* is registered for.
OtherRequests ==
    { [rule |-> COLLECTION, method |-> "DELETE", id |-> NoId],
      [rule |-> COLLECTION, method |-> "PUT", id |-> NoId] }
    \cup { [rule |-> ITEM, method |-> "POST", id |-> i] : i \in PathIds }

(***************************************************************************)
(* The handlers of PUT and DELETE in the two steps that touch the table:   *)
(* the lookup with its 404 guard, and the write with the response.  Other  *)
(* requests may be served between the two.                                 *)
(***************************************************************************)
Workers == 1 .. NumWorkers

Idle == [pc |-> "idle", op |-> "none", id |-> NoId, result |-> <<>>]

\* Variant: a Delete of an absent id is answered 204, as an idempotent
\* delete would be.
delete_account_find_absent_204(table, account_id) ==
    LET result == find(table, account_id)
    IN IF result = <<>>
       THEN [done |-> TRUE, result |-> result,
             resp |-> [status |-> HTTP_204_NO_CONTENT, kind |-> "text", text |-> ""]]
       ELSE [done |-> FALSE, result |-> result]

\* delete_account, lines 138-140: find, and abort with 404.
delete_account_find(table, account_id) ==
    LET result == find(table, account_id)
    IN IF result = <<>>
       THEN [done |-> TRUE, result |-> result, resp |-> not_found(account_id)]
       ELSE [done |-> FALSE, result |-> result]

\* delete_account, lines 142-144: result.delete() and the 204.
delete_account_commit(table, seq, result) ==
    Outcome([status |-> HTTP_204_NO_CONTENT, kind |-> "text", text |-> ""],
            delete(table, result[1]), seq)

\* update_account, lines 116-118: find, and abort with 404.
update_account_find(table, account_id) ==
    LET result == find(table, account_id)
    IN IF result = <<>>
       THEN [done |-> TRUE, result |-> result, resp |-> not_found(account_id)]
       ELSE [done |-> FALSE, result |-> result]

\* update_account, lines 120-124: deserialize, update() and the 200.
update_account_commit(table, seq, data) ==
    IF ~deserialize_ok(data)
    THEN Outcome(bad_request, table, seq)
    ELSE LET account == deserialize(Account, data)
         IN Outcome([status |-> HTTP_200_OK, kind |-> "account",
                     body |-> serialize(account)],
                    update(table, account), seq)

(***************************************************************************)
(* The requests, one action each.                                          *)
(***************************************************************************)
Init ==
    /\ accounts = [i \in {} |-> Account]
    /\ nextId = 1
    /\ req = [op |-> "none", id |-> NoId, content_type |-> None, data |-> NoPayload]
    /\ resp = [status |-> 0, kind |-> "none"]
    /\ before = accounts
    /\ posted = [i \in {} |-> NoPayload]
    /\ touched = {}
    /\ deletedIds = {}
    /\ nCreated = 0
    /\ nDeleted = 0
    /\ issued = <<>>
    /\ threads = [w \in Workers |-> Idle]
    /\ absentDelete = FALSE
    /\ ok204 = [i \in PathIds |-> 0]

Apply(out) ==
    /\ accounts' = out.accounts
    /\ nextId' = out.nextId
    /\ resp' = out.resp
    /\ before' = accounts
    /\ UNCHANGED <<threads, absentDelete, ok204>>

Create ==
    \E content_type \in ContentTypes, data \in Payloads :
        LET out == create_accounts(accounts, nextId, content_type, data)
        IN /\ out.resp.status = HTTP_201_CREATED => nextId <= MaxAccounts
           /\ Apply(out)
           /\ req' = [op |-> "POST", id |-> NoId, content_type |-> content_type,
                      data |-> data]
           /\ IF out.resp.status = HTTP_201_CREATED
              THEN /\ posted' = [i \in DOMAIN posted \cup {nextId} |->
                                   IF i = nextId THEN data ELSE posted[i]]
                   /\ nCreated' = nCreated + 1
                   /\ issued' = Append(issued, out.resp.body.id)
              ELSE UNCHANGED <<posted, nCreated, issued>>
           /\ UNCHANGED <<touched, deletedIds, nDeleted>>

Read ==
    \E acc_id \in PathIds, content_type \in BodylessContentTypes :
        /\ Apply(read_an_account(accounts, nextId, acc_id))
        /\ req' = [op |-> "GET", id |-> acc_id, content_type |-> content_type,
                   data |-> NoPayload]
        /\ UNCHANGED <<posted, touched, deletedIds, nCreated, nDeleted, issued>>

List ==
    \E content_type \in BodylessContentTypes :
        /\ Apply(list_all_accounts(accounts, nextId))
        /\ req' = [op |-> "LIST", id |-> NoId, content_type |-> content_type,
                   data |-> NoPayload]
        /\ UNCHANGED <<posted, touched, deletedIds, nCreated, nDeleted, issued>>

Update ==
    \E account_id \in PathIds, content_type \in UpdateContentTypes, data \in Payloads :
      \E on_json_failure \in
            IF is_json(content_type) THEN {HTTP_400_BAD_REQUEST} ELSE JsonFailures :
        /\ Apply(update_account(accounts, nextId, account_id, content_type, data,
                                on_json_failure))
        /\ req' = [op |-> "PUT", id |-> account_id, content_type |-> content_type,
                   data |-> data]
        /\ touched' = touched \cup ({account_id} \cap DOMAIN posted)
        /\ UNCHANGED <<posted, deletedIds, nCreated, nDeleted, issued>>

Delete ==
    \E account_id \in PathIds, content_type \in BodylessContentTypes :
        LET out == delete_account(accounts, nextId, account_id)
        IN /\ Apply(out)
           /\ req' = [op |-> "DELETE", id |-> account_id, content_type |-> content_type,
                      data |-> NoPayload]
           /\ touched' = touched \cup ({account_id} \cap DOMAIN posted)
           /\ IF out.resp.status = HTTP_204_NO_CONTENT
              THEN /\ deletedIds' = deletedIds \cup {account_id}
                   /\ nDeleted' = nDeleted + 1
              ELSE UNCHANGED <<deletedIds, nDeleted>>
           /\ UNCHANGED <<posted, nCreated, issued>>

Other ==
    \E r \in OtherRequests :
        /\ Apply(dispatch(accounts, nextId, r.method, r.rule, r.id, JSON, NoPayload,
                          HTTP_400_BAD_REQUEST))
        /\ req' = [op |-> "OTHER", method |-> r.method, rule |-> r.rule, id |-> r.id,
                   content_type |-> JSON, data |-> NoPayload]
        /\ UNCHANGED <<posted, touched, deletedIds, nCreated, nDeleted, issued>>

Next == Create \/ List \/ Read \/ Update \/ Delete \/ Other

Spec == Init /\ [][Next]_vars

(***************************************************************************)
(* Concurrent handling: the table holds MaxAccounts rows, and every worker *)
(* serves PUT and DELETE requests on them, one handler step at a time.     *)
(***************************************************************************)
ConcData == [type |-> "dict",
             items |-> [name |-> "Ann", email |-> "b@x.com", address |-> "1 Main St"]]

RECURSIVE populate(_)
populate(n) ==
    IF n = 0 THEN [accounts |-> [i \in {} |-> Account], nextId |-> 1]
    ELSE LET p == populate(n - 1)
         IN create(p.accounts, p.nextId, deserialize(Account, ConcData))

ConcInit ==
    /\ accounts = populate(MaxAccounts).accounts
    /\ nextId = MaxAccounts + 1
    /\ req = [op |-> "none", id |-> NoId, content_type |-> None, data |-> NoPayload]
    /\ resp = [status |-> 0, kind |-> "none"]
    /\ before = accounts
    /\ posted = [i \in 1 .. MaxAccounts |-> ConcData]
    /\ touched = {}
    /\ deletedIds = {}
    /\ nCreated = MaxAccounts
    /\ nDeleted = 0
    /\ issued = [i \in 1 .. MaxAccounts |-> i]
    /\ threads = [w \in Workers |-> Idle]
    /\ absentDelete = FALSE
    /\ ok204 = [i \in PathIds |-> 0]

history == <<before, posted, touched, deletedIds, nCreated, nDeleted, issued>>

\* The worker's response: the request is over.
Respond(w, r, found) ==
    /\ resp' = r
    /\ req' = [op |-> threads[w].op, id |-> threads[w].id, content_type |-> JSON,
               data |-> IF threads[w].op = "PUT" THEN ConcData ELSE NoPayload,
               found |-> found]
    /\ threads' = [threads EXCEPT ![w] = Idle]

Receive(w) ==
    /\ threads[w].pc = "idle"
    /\ \E op \in {"PUT", "DELETE"}, id \in 1 .. MaxAccounts :
          threads' = [threads EXCEPT ![w] = [pc |-> "find", op |-> op, id |-> id,
                                             result |-> <<>>]]
    /\ UNCHANGED <<accounts, nextId, req, resp, absentDelete, ok204, history>>

DeleteFind(w) ==
    /\ threads[w].pc = "find" /\ threads[w].op = "DELETE"
    /\ LET f == delete_account_find(accounts, threads[w].id)
       IN IF f.done
          THEN /\ Respond(w, f.resp, FALSE)
               /\ ok204' = IF f.resp.status = HTTP_204_NO_CONTENT
                            THEN [ok204 EXCEPT ![threads[w].id] = @ + 1] ELSE ok204
          ELSE /\ threads' = [threads EXCEPT ![w].pc = "commit", ![w].result = f.result]
               /\ UNCHANGED <<req, resp, ok204>>
    /\ UNCHANGED <<accounts, nextId, absentDelete, history>>

DeleteCommit(w) ==
    /\ threads[w].pc = "commit" /\ threads[w].op = "DELETE"
    /\ LET out == delete_account_commit(accounts, nextId, threads[w].result)
       IN /\ accounts' = out.accounts
          /\ Respond(w, out.resp, TRUE)
          /\ absentDelete' = (absentDelete \/ threads[w].id \notin DOMAIN accounts)
          /\ ok204' = [ok204 EXCEPT ![threads[w].id] = @ + 1]
    /\ UNCHANGED <<nextId, history>>

UpdateFind(w) ==
    /\ threads[w].pc = "find" /\ threads[w].op = "PUT"
    /\ LET f == update_account_find(accounts, threads[w].id)
       IN IF f.done
          THEN Respond(w, f.resp, FALSE)
          ELSE /\ threads' = [threads EXCEPT ![w].pc = "commit", ![w].result = f.result]
               /\ UNCHANGED <<req, resp>>
    /\ UNCHANGED <<accounts, nextId, absentDelete, ok204, history>>

UpdateCommit(w) ==
    /\ threads[w].pc = "commit" /\ threads[w].op = "PUT"
    /\ LET out == update_account_commit(accounts, nextId, ConcData)
       IN /\ accounts' = out.accounts
          /\ Respond(w, out.resp, TRUE)
    /\ UNCHANGED <<nextId, absentDelete, ok204, history>>

ConcNext ==
    \E w \in Workers :
        \/ Receive(w)
        \/ DeleteFind(w)
        \/ DeleteCommit(w)
        \/ UpdateFind(w)
        \/ UpdateCommit(w)

ConcSpec == ConcInit /\ [][ConcNext]_vars

(***************************************************************************)
(* Properties.                                                             *)
(***************************************************************************)
\* The four client-settable fields of a request body, read the way
\* deserialize reads them (an absent optional key is None).
BodyFields(data) ==
    [name |-> data.items.name, email |-> data.items.email,
     address |-> data.items.address,
     phone_number |-> Get(data.items, "phone_number")]

\* The same four fields of a row or of a serialized entity.
Fields(a) ==
    [name |-> a.name, email |-> a.email, address |-> a.address,
     phone_number |-> a.phone_number]

\* C1: after a 200 answer to PUT /accounts/{id}, the stored row of that id
\* has name, email, address and phone_number equal to the request body.
C1_UpdatePersistsBody ==
    (req.op = "PUT" /\ resp.status = HTTP_200_OK) =>
        /\ req.id \in DOMAIN accounts
        /\ Fields(accounts[req.id]) = BodyFields(req.data)

\* C2: the entity serialized in the 200 answer to PUT /accounts/{id} carries
\* the id of the URL path.
C2_UpdateIdFromPath ==
    (req.op = "PUT" /\ resp.status = HTTP_200_OK) => resp.body.id = req.id

\* C3: reading an id that a Create returned, with no PUT or DELETE addressed
\* to that id since, answers 200 with the four fields of the Create's body
\* (and that id), whatever happened to other ids.
C3_CreateReadRoundTrip ==
    (req.op = "GET" /\ req.id \in DOMAIN posted /\ req.id \notin touched) =>
        /\ resp.status = HTTP_200_OK
        /\ resp.body.id = req.id
        /\ Fields(resp.body) = BodyFields(posted[req.id])

C3_Witness ==
    /\ req.op = "GET" /\ req.id \in DOMAIN posted /\ req.id \notin touched
    /\ resp.status = HTTP_200_OK
    /\ "phone_number" \in DOMAIN posted[req.id].items
    /\ touched # {}

\* C4: a Delete of an id that is in the table answers 204 and removes that
\* row and no other, every other row staying as it was; a Read of an id
\* that was deleted answers 404.
C4_DeleteRemovesExactlyThat ==
    /\ (req.op = "DELETE" /\ req.id \in DOMAIN before) =>
          /\ resp.status = HTTP_204_NO_CONTENT
          /\ DOMAIN accounts = DOMAIN before \ {req.id}
          /\ \A i \in DOMAIN accounts : accounts[i] = before[i]
    /\ (req.op = "GET" /\ req.id \in deletedIds) =>
          resp.status = HTTP_404_NOT_FOUND
    /\ deletedIds \cap DOMAIN accounts = {}

C4_Witness ==
    /\ req.op = "DELETE" /\ req.id \in DOMAIN before
    /\ resp.status = HTTP_204_NO_CONTENT
    /\ DOMAIN accounts # {}

\* C5: a Delete of an id that is not in the table answers 404 and leaves the
\* table as it was; so does a second Delete of a deleted id.
C5_DeleteAbsentIs404 ==
    (req.op = "DELETE" /\ req.id \notin DOMAIN before) =>
        /\ resp.status = HTTP_404_NOT_FOUND
        /\ accounts = before

C5_Witness ==
    /\ req.op = "DELETE" /\ req.id \in deletedIds /\ req.id \notin DOMAIN before
    /\ resp.status = HTTP_404_NOT_FOUND
    /\ DOMAIN accounts # {}

\* C6: an Update of an id that is not in the table answers 404 and leaves
\* the table as it was, whatever the body.
C6_UpdateAbsentIs404 ==
    (req.op = "PUT" /\ req.id \notin DOMAIN before) =>
        /\ resp.status = HTTP_404_NOT_FOUND
        /\ accounts = before

C6_Witness ==
    /\ req.op = "PUT" /\ req.id \notin DOMAIN before
    /\ deserialize_ok(req.data) /\ is_json(req.content_type)
    /\ resp.status = HTTP_404_NOT_FOUND
    /\ DOMAIN accounts # {}

\* C7: List answers 200 with one serialized entry per row of the table, as
\* many as there were 201 answers less 204 answers; none when the table is
\* empty.
C7_ListOnePerAccount ==
    req.op = "LIST" =>
        /\ resp.status = HTTP_200_OK
        /\ Len(resp.items) = Cardinality(DOMAIN accounts)
        /\ Len(resp.items) = nCreated - nDeleted
        /\ \A i \in DOMAIN accounts :
              \E k \in 1 .. Len(resp.items) : resp.items[k] = serialize(accounts[i])

C7_Witness ==
    /\ req.op = "LIST" /\ resp.status = HTTP_200_OK
    /\ Len(resp.items) = 1 /\ nCreated = 2 /\ nDeleted = 1

\* C8: a Create whose Content-Type is not exactly application/json, or is
\* absent, answers 415 and adds no row, whatever the body.
C8_CreateWrongMediaType ==
    (req.op = "POST" /\ req.content_type # JSON) =>
        /\ resp.status = HTTP_415_UNSUPPORTED_MEDIA_TYPE
        /\ accounts = before

C8_Witness ==
    /\ req.op = "POST" /\ req.content_type = None
    /\ deserialize_ok(req.data)
    /\ resp.status = HTTP_415_UNSUPPORTED_MEDIA_TYPE
    /\ accounts = before

\* C9: a Create with Content-Type application/json whose body is an object
\* lacking name, email or address answers 400 and adds no row.
C9_CreateMissingKey ==
    (/\ req.op = "POST" /\ req.content_type = JSON
     /\ req.data.type = "dict"
     /\ ~(RequiredKeys \subseteq DOMAIN req.data.items)) =>
        /\ resp.status = HTTP_400_BAD_REQUEST
        /\ accounts = before

C9_Witness ==
    /\ req.op = "POST" /\ req.content_type = JSON
    /\ req.data.type = "dict"
    /\ "email" \notin DOMAIN req.data.items
    /\ resp.status = HTTP_400_BAD_REQUEST
    /\ DOMAIN accounts # {}

\* C10: a Read of an id that is not in the table answers 404, however many
\* rows there are; a Read of an id that is in it answers 200 with the fields
\* of its row.
C10_ReadByPresence ==
    req.op = "GET" =>
        IF req.id \in DOMAIN accounts
        THEN /\ resp.status = HTTP_200_OK
             /\ resp.body = serialize(accounts[req.id])
        ELSE resp.status = HTTP_404_NOT_FOUND

C10_Witness ==
    /\ req.op = "GET" /\ req.id \notin DOMAIN accounts
    /\ resp.status = HTTP_404_NOT_FOUND
    /\ Cardinality(DOMAIN accounts) >= 2

\* C11: the rows of the table carry pairwise different ids (each row the id
\* it is stored under), the ids of the 201 responses are pairwise different,
\* and no deleted id is in the table.
C11_IdsUniqueNeverReused ==
    /\ \A i \in DOMAIN accounts : accounts[i].id = i
    /\ \A j, k \in 1 .. Len(issued) : j # k => issued[j] # issued[k]
    /\ \A j \in 1 .. Len(issued) : issued[j] # NoId
    /\ deletedIds \cap DOMAIN accounts = {}
    /\ (req.op = "POST" /\ resp.status = HTTP_201_CREATED) =>
          /\ resp.body.id \notin deletedIds
          /\ resp.body.id \notin DOMAIN before

C11_Witness ==
    /\ req.op = "POST" /\ resp.status = HTTP_201_CREATED
    /\ Len(issued) = 2
    /\ deletedIds = {issued[1]}
    /\ touched = {issued[1]}
    /\ DOMAIN accounts = {issued[2]}

\* C12: a Create with Content-Type application/json and a valid body answers
\* 201; every 201 has a Location header and a body that is the serialized
\* new row, with its assigned id and date_joined; the table gains that row
\* and is otherwise as before.
C12_CreateAnswers201 ==
    /\ (req.op = "POST" /\ req.content_type = JSON /\ deserialize_ok(req.data)) =>
          resp.status = HTTP_201_CREATED
    /\ (req.op = "POST" /\ resp.status = HTTP_201_CREATED) =>
          /\ "location" \in DOMAIN resp
          /\ resp.location # None
          /\ resp.kind = "account"
          /\ resp.body.id # NoId
          /\ resp.body.date_joined # None
          /\ resp.body.id \notin DOMAIN before
          /\ DOMAIN accounts = DOMAIN before \cup {resp.body.id}
          /\ resp.body = serialize(accounts[resp.body.id])
          /\ \A i \in DOMAIN before : accounts[i] = before[i]
    /\ (req.op = "POST" /\ resp.status # HTTP_201_CREATED) => accounts = before

C12_Witness ==
    /\ req.op = "POST" /\ resp.status = HTTP_201_CREATED
    /\ "date_joined" \notin DOMAIN req.data.items
    /\ resp.body.date_joined = Today
    /\ DOMAIN before # {}

\* C13: an Update of an id in the table, with a JSON Content-Type and a valid
\* body, answers 200; the body of every 200 answer to an Update has name,
\* email, address and phone_number equal to the request body.
C13_UpdateAnswersNewValues ==
    /\ (/\ req.op = "PUT" /\ req.id \in DOMAIN before
        /\ is_json(req.content_type) /\ deserialize_ok(req.data)) =>
          resp.status = HTTP_200_OK
    /\ (req.op = "PUT" /\ resp.status = HTTP_200_OK) =>
          /\ resp.kind = "account"
          /\ Fields(resp.body) = BodyFields(req.data)

C13_Witness ==
    /\ req.op = "PUT" /\ resp.status = HTTP_200_OK
    /\ req.id \in DOMAIN before
    /\ before[req.id].email = "a@x.com"
    /\ resp.body.email = "b@x.com"

\* C15: a row's id and date_joined are those it got when it was created:
\* no request changes them on a row that stays in the table, the id is the
\* one the row is stored under, and the date_joined is the one of the
\* Create's body, or the day of the Create when the body had none.
C15_IdAndDateJoinedImmutable ==
    /\ \A i \in DOMAIN before \cap DOMAIN accounts :
          /\ accounts[i].id = before[i].id
          /\ accounts[i].date_joined = before[i].date_joined
    /\ \A i \in DOMAIN accounts :
          /\ accounts[i].id = i
          /\ i \in DOMAIN posted
          /\ accounts[i].date_joined =
                IF "date_joined" \in DOMAIN posted[i].items
                THEN posted[i].items.date_joined ELSE Today

C15_Witness ==
    /\ req.op = "PUT" /\ resp.status = HTTP_200_OK
    /\ req.id \in DOMAIN accounts
    /\ "date_joined" \in DOMAIN req.data.items
    /\ req.data.items.date_joined # accounts[req.id].date_joined
    /\ "id" \in DOMAIN req.data.items /\ req.data.items.id # req.id

\* C14: DELETE or PUT on /accounts and POST on /accounts/{id} are answered
\* 405, whatever the table holds, and leave the table as it was.
C14_MethodNotAllowed ==
    req.op = "OTHER" =>
        /\ resp.status = HTTP_405_METHOD_NOT_ALLOWED
        /\ accounts = before

C14_Witness ==
    /\ req.op = "OTHER" /\ req.method = "DELETE" /\ req.rule = COLLECTION
    /\ resp.status = HTTP_405_METHOD_NOT_ALLOWED
    /\ DOMAIN accounts # {}

ErrorStatuses == {HTTP_400_BAD_REQUEST, HTTP_404_NOT_FOUND,
                  HTTP_415_UNSUPPORTED_MEDIA_TYPE}

\* C17: a request answered 400, 404 or 415 leaves the table, and the id
\* sequence, as it found them.
C17_ErrorsWriteNothing ==
    resp.status \in ErrorStatuses =>
        /\ accounts = before
        /\ nextId = Len(issued) + 1

C17_Witness ==
    /\ req.op = "PUT" /\ req.id \in DOMAIN before
    /\ is_json(req.content_type) /\ ~deserialize_ok(req.data)
    /\ resp.status = HTTP_400_BAD_REQUEST
    /\ accounts = before

\* A response without content.
EmptyBody(r) == r.kind = "text" /\ r.text = ""

\* C19: the body of a response is empty exactly when it is the 204 of a
\* Delete; every 400, 404, 405 and 415 carries a message, the 404 of a Read,
\* Update or Delete naming the id of the path and the 415 of a Create naming
\* application/json.
C19_OnlyDeleteAnswersEmpty ==
    req.op # "none" =>
        /\ EmptyBody(resp) <=> (req.op = "DELETE" /\ resp.status = HTTP_204_NO_CONTENT)
        /\ resp.status \in ErrorStatuses \cup {HTTP_405_METHOD_NOT_ALLOWED} =>
              /\ resp.kind = "error"
              /\ resp.body.status = resp.status
              /\ "message" \in DOMAIN resp.body
        /\ (resp.status = HTTP_404_NOT_FOUND /\ req.op \in {"GET", "PUT", "DELETE"}) =>
              /\ "id" \in DOMAIN resp.body.message
              /\ resp.body.message.id = req.id
        /\ (resp.status = HTTP_415_UNSUPPORTED_MEDIA_TYPE /\ req.op = "POST") =>
              /\ "media_type" \in DOMAIN resp.body.message
              /\ resp.body.message.media_type = JSON

C19_Witness ==
    /\ req.op = "DELETE" /\ resp.status = HTTP_404_NOT_FOUND
    /\ req.id \in deletedIds
    /\ resp.body.message.id = req.id
    /\ ~EmptyBody(resp)

\* C20: a Create whose Content-Type is not application/json answers 415 also
\* when its body is invalid; an Update of an id that is not in the table
\* answers 404 also when its body is invalid or not JSON.
C20_CheckOrder ==
    /\ (req.op = "POST" /\ req.content_type # JSON /\ ~deserialize_ok(req.data)) =>
          resp.status = HTTP_415_UNSUPPORTED_MEDIA_TYPE
    /\ (/\ req.op = "PUT" /\ req.id \notin DOMAIN before
        /\ (~deserialize_ok(req.data) \/ ~is_json(req.content_type))) =>
          resp.status = HTTP_404_NOT_FOUND

C20_Witness ==
    /\ req.op = "PUT" /\ req.id \notin DOMAIN before
    /\ is_json(req.content_type) /\ ~deserialize_ok(req.data)
    /\ resp.status = HTTP_404_NOT_FOUND
    /\ DOMAIN accounts # {}

\* C18 as stated: Update, Read, List and Delete never answer 415; an Update
\* of an id in the table with a valid body answers 200 whatever the
\* Content-Type; an Update answers 200, 400 or 404.
C18_UpdateIgnoresContentType ==
    /\ req.op \in {"PUT", "GET", "LIST", "DELETE"} =>
          resp.status # HTTP_415_UNSUPPORTED_MEDIA_TYPE
    /\ (req.op = "PUT" /\ req.id \in DOMAIN before /\ deserialize_ok(req.data)) =>
          resp.status = HTTP_200_OK
    /\ req.op = "PUT" =>
          resp.status \in {HTTP_200_OK, HTTP_400_BAD_REQUEST, HTTP_404_NOT_FOUND}

\* C18 as amended: Read, List and Delete never answer 415, whatever the
\* Content-Type.  An Update of an id in the table with a valid body answers
\* 200 when the Content-Type is application/json; when the Content-Type is
\* not JSON it answers 400 or 415 and never 200, because get_json() does not
\* read the body.  An Update answers 200, 400, 404 or 415.
C18_ContentTypeOnCreateAndJsonBody ==
    /\ req.op \in {"GET", "LIST", "DELETE"} =>
          resp.status # HTTP_415_UNSUPPORTED_MEDIA_TYPE
    /\ (/\ req.op = "PUT" /\ req.id \in DOMAIN before
        /\ deserialize_ok(req.data) /\ req.content_type = JSON) =>
          resp.status = HTTP_200_OK
    /\ (req.op = "PUT" /\ req.id \in DOMAIN before /\ ~is_json(req.content_type)) =>
          resp.status \in {HTTP_400_BAD_REQUEST, HTTP_415_UNSUPPORTED_MEDIA_TYPE}
    /\ req.op = "PUT" =>
          resp.status \in {HTTP_200_OK, HTTP_400_BAD_REQUEST, HTTP_404_NOT_FOUND,
                           HTTP_415_UNSUPPORTED_MEDIA_TYPE}

C18_Witness ==
    /\ req.op = "PUT" /\ req.id \in DOMAIN before
    /\ req.content_type = "text/html" /\ deserialize_ok(req.data)
    /\ resp.status = HTTP_415_UNSUPPORTED_MEDIA_TYPE

\* C16 as stated: with requests handled concurrently, delete() is only ever
\* executed while the row is still in the table, and at most one Delete of
\* a row answers 204.
C16_DeleteOnlyWhilePresent ==
    /\ ~absentDelete
    /\ \A i \in PathIds : ok204[i] <= 1

\* C16 as amended: with requests handled concurrently, delete() is only ever
\* executed by a Delete whose own existence check found the row, and a
\* Delete answers 204 when its check found the row and 404 when it did not;
\* a row that has been deleted stays out of the table.
C16_DeleteOnlyAfterOwnCheck ==
    /\ \A w \in Workers :
          threads[w].pc = "commit" => threads[w].result # <<>>
    /\ req.op = "DELETE" =>
          /\ req.found => resp.status = HTTP_204_NO_CONTENT
          /\ ~req.found => resp.status = HTTP_404_NOT_FOUND
    /\ \A i \in PathIds : ok204[i] > 0 => i \notin DOMAIN accounts

\* Two Deletes of one id have both passed the check; the second delete()
\* ran on a row that was gone, and answered 204 as well.
C16_Witness ==
    /\ absentDelete
    /\ req.op = "DELETE" /\ req.found /\ resp.status = HTTP_204_NO_CONTENT
    /\ ok204[req.id] = 2

====
